---- MODULE Spec2Model ----
(***************************************************************************)
(* MusicBrainzClient (src/client.ts): the request dispatch of lookup, get  *)
(* and post, and the rate-limit gate #rateLimitDelay that #request awaits  *)
(* before fetch and replaces after a response that reports an exhausted    *)
(* rate limit.                                                             *)
(*                                                                         *)
(* One client instance.  Every call is an async task that suspends at the  *)
(* awaits of the code: the gate await (line 190), the fetch (line 192) and *)
(* response.json() (lines 159, 181).  Tasks interleave at those points     *)
(* only (single-threaded cooperative scheduling).  The clock `now` is      *)
(* Date.now() in milliseconds and advances by TickMs.  The event loop      *)
(* delivers a fetch completion or a timer only when no continuation is     *)
(* ready (the microtask queue is drained first), and the clock advances by *)
(* another tick only when no continuation is ready and no timer is due.    *)
(* A caller may start a call at any point.                                 *)
(***************************************************************************)
EXTENDS Integers, Sequences, FiniteSets, TLC

\* ------------------------------------------------------------------ bounds
\* the calls made on the client, and the ticks of the clock
NumCalls == 3
MaxTicks == 3

\* parseInt(rateLimitReset) * 1000: seconds to milliseconds
MsPerSecond == 1000

\* The clock is read to the second.
TickMs == MsPerSecond
MaxNow == MaxTicks * TickMs
Calls == 1..NumCalls

Max(a, b) == IF a >= b THEN a ELSE b

\* ------------------------------------------------------- JavaScript values
\* A number that may be NaN.
NaN == [nan |-> TRUE, val |-> 0]
Num(n) == [nan |-> FALSE, val |-> n]

\* a === n, a * k, a - n, a > n with JavaScript's NaN rules
StrictEquals(a, n) == ~a.nan /\ a.val = n
Times(a, k) == IF a.nan THEN NaN ELSE Num(a.val * k)
Minus(a, n) == IF a.nan THEN NaN ELSE Num(a.val - n)
GreaterThan(a, n) == ~a.nan /\ a.val > n

Digits == <<"0", "1", "2", "3", "4", "5", "6", "7", "8", "9">>
IsDigit(ch) == \E i \in 1..Len(Digits) : Digits[i] = ch
DigitValue(ch) == (CHOOSE i \in 1..Len(Digits) : Digits[i] = ch) - 1

RECURSIVE SkipWhiteSpace(_)
SkipWhiteSpace(s) ==
    IF s # <<>> /\ Head(s) = " " THEN SkipWhiteSpace(Tail(s)) ELSE s

RECURSIVE ParseDigits(_, _, _)
ParseDigits(s, acc, seen) ==
    IF s # <<>> /\ IsDigit(Head(s))
    THEN ParseDigits(Tail(s), acc * 10 + DigitValue(Head(s)), TRUE)
    ELSE IF seen THEN Num(acc) ELSE NaN

\* parseInt(string) for a string (a sequence of characters) that has no
\* 0x prefix: leading white space, an optional sign, the longest prefix of
\* decimal digits; NaN when there is no digit.
parseInt(s) ==
    LET t == SkipWhiteSpace(s)
        signed == t # <<>> /\ Head(t) \in {"-", "+"}
        r == ParseDigits(IF signed THEN Tail(t) ELSE t, 0, FALSE)
    IN  IF r.nan THEN NaN
        ELSE IF signed /\ Head(t) = "-" THEN Num(0 - r.val) ELSE r

\* response.headers.get(name): null when the header is absent
Absent == [present |-> FALSE, value |-> <<>>]
Header(s) == [present |-> TRUE, value |-> s]
\* JavaScript truthiness of string | null: null and "" are falsy
Truthy(h) == h.present /\ h.value # <<>>

\* ------------------------------------------------------------ identifiers
HexChars == {"0", "1", "2", "3", "4", "5", "6", "7", "8", "9",
             "a", "b", "c", "d", "e", "f", "A", "B", "C", "D", "E", "F"}
UuidLen == 36
HyphenAt == {9, 14, 19, 24}

\* validate(mbid) of std/uuid: 8-4-4-4-12 hexadecimal digits, any case
validate(id) ==
    /\ Len(id) = UuidLen
    /\ \A i \in 1..UuidLen :
          IF i \in HyphenAt THEN id[i] = "-" ELSE id[i] \in HexChars

MbidValid == <<"9","4","e","d","3","1","8","a","-","f","d","7","d","-","4","a","b","c","-","8","4","9","1","-","a","3","5","e","3","9","f","5","1","d","c","a">>
MbidNonHex == <<"9","4","e","d","3","1","8","g","-","f","d","7","d","-","4","a","b","c","-","8","4","9","1","-","a","3","5","e","3","9","f","5","1","d","c","a">>
MbidNoHyphen == <<"9","4","e","d","3","1","8","a","f","d","7","d","4","a","b","c","8","4","9","1","a","3","5","e","3","9","f","5","1","d","c","a">>
\* The identifiers callers pass to lookup; the state names one by its
\* place in this list (0: the call has none).
Mbids == <<MbidValid, MbidNonHex, MbidNoHyphen>>
NoMbid == Len(<<>>)

\* -------------------------------------------------------------- responses
Statuses == {200, 429}
RemainingHeaders == {Absent, Header(<<>>), Header(<<"0">>), Header(<<"7">>),
                     Header(<<"a">>)}
ResetHeaders == {Absent, Header(<<>>), Header(<<"1">>), Header(<<"2">>),
                 Header(<<"a">>)}

\* A body is its text's JSON decoding (json = FALSE: the text is not JSON).
NotJson == [json |-> FALSE, data |-> [raw |-> "<html>"]]
ErrorBody == [json |-> TRUE,
              data |-> [error |-> "Not Found", help |-> "see the docs"]]
EntityBody == [json |-> TRUE, data |-> [id |-> "94ed318a", title |-> "t"]]
Bodies == {NotJson, ErrorBody, EntityBody}

\* The rate-limit headers of a response.  Its status and its body are
\* drawn where the code reads them: after response.json().
Responses == [remaining : RemainingHeaders, reset : ResetHeaders]

\* isError(data): the decoded body has an error field
isError(data) == "error" \in DOMAIN data

NoData == [none |-> "none"]
NoError == [kind |-> "none", message |-> "", status |-> 0]
\* new ApiError(data.error, response.status)
ApiError(message, status) ==
    [kind |-> "ApiError", message |-> message, status |-> status]
\* the AssertionError of assert(validate(mbid), ...)
AssertionError == [kind |-> "AssertionError", message |-> "not a valid MBID",
                   status |-> 0]
\* what fetch rejects with, and what response.json() rejects with
TransportError == [kind |-> "TypeError", message |-> "network", status |-> 0]
TlsFailure == [kind |-> "TypeError", message |-> "tls", status |-> 0]
TransportFailures == {TransportError, TlsFailure}
SyntaxError == [kind |-> "SyntaxError", message |-> "not JSON", status |-> 0]

\* ------------------------------------------------------------------ state
VARIABLES
    now,            \* Date.now(), in milliseconds
    apiBaseUrl,     \* this.apiBaseUrl
    headers,        \* this.#headers
    promises,       \* every promise #rateLimitDelay has held, oldest first
    rateLimitDelay, \* this.#rateLimitDelay: an index into promises
    peer,           \* the #rateLimitDelay of a second client instance:
                    \* an index into promises (0: there is no second one)
    calls,          \* the calls of lookup, get and post, in start order
    cooldownSeen,   \* a processed response reported remaining 0 until a
                    \* reset time then in the future (history)
    effect          \* what the last step did: the request it sent, the
                    \* response it inspected, or the promise of a caller
                    \* it settled

vars == <<now, apiBaseUrl, headers, promises, rateLimitDelay, peer, calls,
          cooldownSeen, effect>>

DefaultApiUrl == "https://musicbrainz.org/ws/2/"
AcceptJson == [Accept |-> "application/json"]

\* #rateLimitDelay = Promise.resolve(): a promise that is already resolved.
\* due and resolved are the promise; client, until and overPending are
\* history: the instance whose field the promise was made for (1: the
\* client, 2: the second instance), the reset time in ms that the response
\* named, and whether the promise it replaced was still pending.
InitialGate ==
    [due |-> 0, resolved |-> TRUE, client |-> 1, until |-> 0,
     overPending |-> FALSE]

\* A call: its place in the code (pc), the instance it was made on (1: the
\* client, 2: the second instance), the entry point and identifier it was
\* called with, the promise its gate await is suspended on, when it
\* was started, how many requests it has sent, and the latest reset time
\* in ms of the cooldowns installed since it started (overtaken; 0: none).
IdleCall ==
    [pc |-> "idle", client |-> 1, entry |-> "none", mbid |-> NoMbid,
     awaiting |-> 0, startedAt |-> 0, sends |-> 0, overtaken |-> 0]

\* A call whose promise is settled: the client keeps nothing of it (how it
\* was settled is the caller's to see); the model keeps its request count.
Settled(call) == [IdleCall EXCEPT !.pc = "settled", !.sends = call.sends]

NoEffect ==
    [kind |-> "none", call |-> 0, client |-> 1, entry |-> "none",
     mbid |-> NoMbid,
     awaiting |-> 0, startedAt |-> 0, overtaken |-> 0, signal |-> FALSE,
     status |-> 0, body |-> NotJson, cause |-> NoError, error |-> NoError,
     result |-> NoData]

\* fetch(url, init) is called by call c.
SendEffect(c) ==
    [NoEffect EXCEPT !.kind = "send", !.call = c,
                     !.client = calls[c].client, !.entry = calls[c].entry,
                     !.awaiting = calls[c].awaiting,
                     !.startedAt = calls[c].startedAt,
                     !.overtaken = calls[c].overtaken]

\* The response reports that no usage unit remains until a reset time that
\* is in the future at time t: X-RateLimit-Remaining is present and its
\* number is zero, X-RateLimit-Reset is present and its number of seconds,
\* in milliseconds, less t is strictly positive.
CooldownSignal(response, t) ==
    /\ response.remaining.present
    /\ ~parseInt(response.remaining.value).nan
    /\ parseInt(response.remaining.value).val = 0
    /\ response.reset.present
    /\ ~parseInt(response.reset.value).nan
    /\ parseInt(response.reset.value).val * MsPerSecond - t > 0

\* #request reads the headers of the response to call c; signal is
\* whether they carry the cooldown signal (history: the headers are not
\* kept).
InspectEffect(c, response) ==
    [NoEffect EXCEPT !.kind = "inspect", !.call = c,
                     !.entry = calls[c].entry,
                     !.signal = CooldownSignal(response, now)]

\* The promise that lookup, get or post returned to its caller is settled
\* (for an invalid identifier: lookup throws); status and body are those
\* of the response the call had received (status 0: none).
SettleEffect(c, entry, mbid, status, body, error, result) ==
    [NoEffect EXCEPT !.kind = "settle", !.call = c, !.entry = entry,
                     !.mbid = mbid, !.overtaken = calls[c].overtaken,
                     !.status = status, !.body = body,
                     !.error = error, !.result = result]

Init ==
    /\ now = 0
    /\ apiBaseUrl = DefaultApiUrl
    /\ headers = AcceptJson
    /\ promises = <<InitialGate>>
    /\ rateLimitDelay = 1
    /\ peer = 0
    /\ calls = [c \in Calls |-> IdleCall]
    /\ cooldownSeen = FALSE
    /\ effect = NoEffect

\* Calls are numbered in the order in which they are started.
CanStart(c) ==
    /\ calls[c].pc = "idle"
    /\ IF c = 1 THEN TRUE ELSE calls[c - 1].pc # "idle"

\* #request up to its first suspension: `await this.#rateLimitDelay` reads
\* the field once and suspends the call on the promise found there.
EnterRequest(c, entry, mbid) ==
    /\ calls' = [calls EXCEPT ![c] =
                   [@ EXCEPT !.pc = "gate", !.entry = entry, !.mbid = mbid,
                             !.awaiting = rateLimitDelay, !.startedAt = now]]
    /\ effect' = NoEffect

\* lookup without its assertion
LookupUnchecked(mbid) == TRUE

\* assert(validate(mbid), ...)
LookupAccepts(mbid) == validate(mbid)

\* lookup(entityType, mbid, inc): the assertion, then get
Lookup(c, m) ==
    /\ CanStart(c)
    /\ IF LookupAccepts(Mbids[m])
       THEN EnterRequest(c, "lookup", m)
       ELSE /\ calls' = [calls EXCEPT ![c] = Settled(@)]
            /\ effect' = SettleEffect(c, "lookup", m, 0, NotJson,
                                      AssertionError, NoData)
    /\ UNCHANGED <<now, apiBaseUrl, headers, promises, rateLimitDelay, peer,
                   cooldownSeen>>

\* get(endpoint, query) up to the gate await of #request
Get(c) ==
    /\ CanStart(c)
    /\ EnterRequest(c, "get", NoMbid)
    /\ UNCHANGED <<now, apiBaseUrl, headers, promises, rateLimitDelay, peer,
                   cooldownSeen>>

\* post(endpoint, json) up to the gate await of #request
Post(c) ==
    /\ CanStart(c)
    /\ EnterRequest(c, "post", NoMbid)
    /\ UNCHANGED <<now, apiBaseUrl, headers, promises, rateLimitDelay, peer,
                   cooldownSeen>>

\* #request without `await this.#rateLimitDelay`
GateNotAwaited(c) == TRUE

\* The awaited promise of call c is resolved: its gate await can resume.
GateSatisfied(c) == promises[calls[c].awaiting].resolved

\* The call resumes from its gate await and calls fetch(url, init).  What
\* it awaited and when it started is read while it waits at the gate only;
\* from here on overtaken counts the cooldowns installed since the send.
Send(c) ==
    /\ calls[c].pc = "gate"
    /\ GateSatisfied(c)
    /\ calls' = [calls EXCEPT ![c] =
                   [@ EXCEPT !.pc = "sent", !.sends = @ + 1,
                             !.awaiting = 0, !.startedAt = 0,
                             !.overtaken = 0]]
    /\ effect' = SendEffect(c)
    /\ UNCHANGED <<now, apiBaseUrl, headers, promises, rateLimitDelay, peer,
                   cooldownSeen>>

\* #request reading the headers without awaiting the fetch
InspectBeforeResponse(c) == calls[c].pc \in {"sent", "received"}

\* #request awaiting this.#rateLimitDelay once more after the fetch
InspectAfterGate(c) ==
    calls[c].pc = "received" /\ promises[rateLimitDelay].resolved

\* Nothing but the resolved fetch stands between a received response and
\* the header inspection of #request.
InspectReady(c) == calls[c].pc = "received"

\* A continuation of call c is ready to run (a microtask is queued).  The
\* decoding of a returned response counts as ready: it reads and writes
\* nothing but its own call, so that what the other calls and the gate can
\* do does not depend on when the body arrives.
Runnable(c) ==
    \/ calls[c].pc = "gate" /\ GateSatisfied(c)
    \/ InspectReady(c)
    \/ calls[c].pc = "returned"

\* The microtask queue is empty: the event loop takes its next event.
Quiescent == \A c \in DOMAIN calls : ~Runnable(c)

\* The server answers: the fetch promise resolves with a response.  What
\* its headers are is drawn where the code reads them (Inspect).
FetchResolve(c) ==
    /\ Quiescent
    /\ calls[c].pc = "sent"
    /\ calls' = [calls EXCEPT ![c].pc = "received"]
    /\ effect' = NoEffect
    /\ UNCHANGED <<now, apiBaseUrl, headers, promises, rateLimitDelay, peer,
                   cooldownSeen>>

\* #request and get/post catching the rejection and throwing an ApiError
PropagateAsApiError(failure) == ApiError(failure.message, 0)

\* `await fetch(url, init)` and `await this.#request(...)` stand in no try
\* block: the rejection of fetch is the rejection of the caller's promise.
Propagate(failure) == failure

\* The transport fails: the fetch promise rejects with failure (cause), and
\* the rejection passes through #request and get/post to the caller.
FetchReject(c, failure) ==
    /\ Quiescent
    /\ calls[c].pc = "sent"
    /\ calls' = [calls EXCEPT ![c] = Settled(@)]
    /\ effect' = [SettleEffect(c, calls[c].entry, calls[c].mbid, 0,
                               NotJson, Propagate(failure), NoData)
                     EXCEPT !.cause = failure]
    /\ UNCHANGED <<now, apiBaseUrl, headers, promises, rateLimitDelay, peer,
                   cooldownSeen>>

\* parseInt(rateLimitReset) * 1000, without `- Date.now()`
CooldownMsFromEpoch(reset, t) == Times(parseInt(reset.value), MsPerSecond)

\* parseInt(rateLimitReset) * 1000 - Date.now()
CooldownMs(reset, t) == Minus(Times(parseInt(reset.value), MsPerSecond), t)

\* #request without the header inspection of lines 195-207
ShouldInstallNever(response, t) == FALSE

\* The conditions of lines 197-202 without `parseInt(remainingUnits) === 0`
ShouldInstallAnyRemaining(response, t) ==
    /\ Truthy(response.remaining)
    /\ Truthy(response.reset)
    /\ GreaterThan(CooldownMs(response.reset, t), 0)

\* The conditions of lines 197-202 with `rateLimitDelay >= 0`
ShouldInstallNotNegative(response, t) ==
    /\ Truthy(response.remaining)
    /\ StrictEquals(parseInt(response.remaining.value), 0)
    /\ Truthy(response.reset)
    /\ GreaterThan(CooldownMs(response.reset, t), 0 - 1)

\* The conditions of lines 197-202 under which the gate is replaced.
ShouldInstall(response, t) ==
    /\ Truthy(response.remaining)
    /\ StrictEquals(parseInt(response.remaining.value), 0)
    /\ Truthy(response.reset)
    /\ GreaterThan(CooldownMs(response.reset, t), 0)

\* new Promise(() => {}): a promise that no timer resolves (it is due
\* after the end of the clock)
DelayWithoutTimer(ms) == [due |-> now + ms + MaxNow, resolved |-> FALSE]

\* this.#rateLimitDelay.then(() => delay(ms)): the new cooldown starts
\* when the pending one ends
DelayAfterPending(ms) ==
    [due |-> Max(now, promises[rateLimitDelay].due) + ms, resolved |-> FALSE]

\* delay(ms): a promise that a timer resolves ms milliseconds from now
delay(ms) == [due |-> now + ms, resolved |-> FALSE]

\* #rateLimitDelay as a static field: every instance uses the client's
FieldIsStatic(client) == 1

\* #rateLimitDelay is an instance field (line 215): `this.#rateLimitDelay`
\* on an instance is the field of that instance.
FieldOwner(client) == client

\* this.#rateLimitDelay, read on an instance
Field(client) == IF FieldOwner(client) = 1 THEN rateLimitDelay ELSE peer

\* #request after the fetch: the header inspection, the replacement of the
\* gate of the instance the call was made on, and the return of the
\* response to get/post.
Inspect(c, response) ==
    LET reset == parseInt(response.reset.value)
        this == calls[c].client
    IN  /\ InspectReady(c)
        /\ IF ShouldInstall(response, now)
           THEN LET p == delay(CooldownMs(response.reset, now).val)
                IN  /\ promises' = Append(promises,
                          [due |-> p.due, resolved |-> p.resolved,
                           client |-> this,
                           until |-> reset.val * MsPerSecond,
                           overPending |-> ~promises[Field(this)].resolved])
                    /\ IF FieldOwner(this) = 1
                       THEN rateLimitDelay' = Len(promises) + 1 /\ peer' = peer
                       ELSE peer' = Len(promises) + 1
                            /\ rateLimitDelay' = rateLimitDelay
                    /\ calls' = [d \in DOMAIN calls |->
                          IF d = c
                          THEN [calls[d] EXCEPT !.pc = "returned"]
                          ELSE IF calls[d].pc \in {"gate", "sent"}
                                  /\ calls[d].client = this
                          THEN [calls[d] EXCEPT !.overtaken =
                                   Max(@, reset.val * MsPerSecond)]
                          ELSE calls[d]]
           ELSE /\ UNCHANGED <<promises, rateLimitDelay, peer>>
                /\ calls' = [calls EXCEPT ![c].pc = "returned"]
        /\ cooldownSeen' = (cooldownSeen \/ CooldownSignal(response, now))
        /\ effect' = InspectEffect(c, response)
        /\ UNCHANGED <<now, apiBaseUrl, headers>>

\* get that calls #request again when the status is 429
GetResultRetry(data, status) ==
    IF status = 429
    THEN [outcome |-> "retry", error |-> NoError, result |-> NoData]
    ELSE IF isError(data)
    THEN [outcome |-> "rejected", error |-> ApiError(data.error, status),
          result |-> NoData]
    ELSE [outcome |-> "fulfilled", error |-> NoError, result |-> data]

\* get after `await response.json()`: lines 160-164
GetResult(data, status) ==
    IF isError(data)
    THEN [outcome |-> "rejected", error |-> ApiError(data.error, status),
          result |-> NoData]
    ELSE [outcome |-> "fulfilled", error |-> NoError, result |-> data]

\* post without the isError branch
PostResultUnchecked(data, status) ==
    [outcome |-> "fulfilled", error |-> NoError, result |-> data]

\* post after `await response.json()`: lines 182-186
PostResult(data, status) ==
    IF isError(data)
    THEN [outcome |-> "rejected", error |-> ApiError(data.error, status),
          result |-> NoData]
    ELSE [outcome |-> "fulfilled", error |-> NoError, result |-> data]

\* The body has arrived: response.json() resolves or rejects, and the rest
\* of get/post runs; lookup returns get's promise.  The promise of the
\* caller is fulfilled or rejected; any other outcome would put the call
\* at a new gate await.
Decode(c, status, body) ==
    LET out == IF ~body.json
               THEN [outcome |-> "rejected", error |-> SyntaxError,
                     result |-> NoData]
               ELSE IF calls[c].entry = "post"
                    THEN PostResult(body.data, status)
                    ELSE GetResult(body.data, status)
    IN  /\ calls[c].pc = "returned"
        /\ calls' = [calls EXCEPT ![c] =
                       IF out.outcome \in {"fulfilled", "rejected"}
                       THEN Settled(@)
                       ELSE [@ EXCEPT !.pc = "gate",
                                      !.awaiting = rateLimitDelay,
                                      !.startedAt = now]]
        /\ effect' = IF out.outcome \in {"fulfilled", "rejected"}
                     THEN SettleEffect(c, calls[c].entry, calls[c].mbid,
                                       status, body, out.error, out.result)
                     ELSE NoEffect
        /\ UNCHANGED <<now, apiBaseUrl, headers, promises, rateLimitDelay, peer,
                       cooldownSeen>>

\* The timer of delay(ms) fires and resolves its promise.
TimerFire(g) ==
    /\ Quiescent
    /\ ~promises[g].resolved
    /\ now >= promises[g].due
    /\ promises' = [promises EXCEPT ![g].resolved = TRUE]
    /\ effect' = NoEffect
    /\ UNCHANGED <<now, apiBaseUrl, headers, rateLimitDelay, peer, cooldownSeen,
                   calls>>

\* The clock advances: no continuation is ready and no timer is due.
Tick ==
    /\ now + TickMs <= MaxNow
    /\ Quiescent
    /\ \A g \in 1..Len(promises) :
          promises[g].resolved \/ now < promises[g].due
    /\ now' = now + TickMs
    /\ effect' = NoEffect
    /\ UNCHANGED <<apiBaseUrl, headers, promises, rateLimitDelay, peer,
                   cooldownSeen, calls>>

Next ==
    \/ \E c \in Calls, m \in 1..Len(Mbids) : Lookup(c, m)
    \/ \E c \in Calls : Get(c)
    \/ \E c \in Calls : Post(c)
    \/ \E c \in Calls : Send(c)
    \/ \E c \in Calls : FetchResolve(c)
    \/ \E c \in Calls, failure \in TransportFailures : FetchReject(c, failure)
    \/ \E c \in Calls, response \in Responses : Inspect(c, response)
    \/ \E c \in Calls, status \in Statuses, body \in Bodies :
          Decode(c, status, body)
    \/ \E g \in 1..Len(promises) : TimerFire(g)
    \/ Tick

Spec == Init /\ [][Next]_vars

\* ---------------------------------------------------------------- progress
\* Lookups with valid and invalid identifiers, answered with any rate-limit
\* headers and an entity, or not answered because the transport fails.
LiveNext ==
    \/ \E c \in Calls, m \in 1..Len(Mbids) : Lookup(c, m)
    \/ \E c \in Calls : Send(c)
    \/ \E c \in Calls : FetchResolve(c)
    \/ \E c \in Calls : FetchReject(c, TransportError)
    \/ \E c \in Calls, response \in Responses : Inspect(c, response)
    \/ \E c \in Calls : Decode(c, 200, EntityBody)
    \/ \E g \in 1..Len(promises) : TimerFire(g)
    \/ Tick

\* The scheduling of the runtime: a continuation that is ready runs, a due
\* timer fires, the clock advances; and the proviso that the server answers
\* every request or the transport fails.
Fairness ==
    /\ WF_vars(\E c \in Calls : Send(c))
    /\ WF_vars(\E c \in Calls, response \in Responses : Inspect(c, response))
    /\ WF_vars(\E c \in Calls : Decode(c, 200, EntityBody))
    /\ WF_vars(\E g \in 1..Len(promises) : TimerFire(g))
    /\ WF_vars(Tick)
    /\ WF_vars(\E c \in Calls :
                  FetchResolve(c) \/ FetchReject(c, TransportError))

LiveSpec == Init /\ [][LiveNext]_vars /\ Fairness

\* The rate-limit headers with which a response asks for a cooldown or for
\* none.
CooldownResponses ==
    {[remaining |-> Absent, reset |-> Absent],
     [remaining |-> Header(<<"0">>), reset |-> Header(<<"1">>)],
     [remaining |-> Header(<<"0">>), reset |-> Header(<<"2">>)]}

\* ------------------------------------------------------------- send order
\* The calls of OrderSpec: two that are answered at different times, one
\* that waits while the second answer arrives, and one started after it.
NumOrderCalls == 4
OrderCalls == 1..NumOrderCalls

OrderInit ==
    /\ now = 0
    /\ apiBaseUrl = DefaultApiUrl
    /\ headers = AcceptJson
    /\ promises = <<InitialGate>>
    /\ rateLimitDelay = 1
    /\ peer = 0
    /\ calls = [c \in OrderCalls |-> IdleCall]
    /\ cooldownSeen = FALSE
    /\ effect = NoEffect

\* Calls of get on one client, answered with entities.
OrderNext ==
    \/ \E c \in OrderCalls : Get(c)
    \/ \E c \in OrderCalls : Send(c)
    \/ \E c \in OrderCalls : FetchResolve(c)
    \/ \E c \in OrderCalls, response \in CooldownResponses : Inspect(c, response)
    \/ \E c \in OrderCalls : Decode(c, 200, EntityBody)
    \/ \E g \in 1..Len(promises) : TimerFire(g)
    \/ Tick

OrderSpec == OrderInit /\ [][OrderNext]_vars

\* ------------------------------------------------------------ two clients
\* A second instance of the class in the same process: its own field, with
\* its own Promise.resolve().  Calls are made on either instance; what
\* happens to a call after it has started is the code of #request and get,
\* whichever instance it was made on.
PeerGate == [InitialGate EXCEPT !.client = 2]

\* get on the second instance, up to the gate await of #request
PeerGet(c) ==
    /\ peer # 0
    /\ CanStart(c)
    /\ calls' = [calls EXCEPT ![c] =
                   [@ EXCEPT !.pc = "gate", !.client = 2, !.entry = "get",
                             !.awaiting = Field(2), !.startedAt = now]]
    /\ effect' = NoEffect
    /\ UNCHANGED <<now, apiBaseUrl, headers, promises, rateLimitDelay, peer,
                   cooldownSeen>>

\* Two clients constructed with the default options.
TwoInit ==
    /\ now = 0
    /\ apiBaseUrl = DefaultApiUrl
    /\ headers = AcceptJson
    /\ promises = <<InitialGate, PeerGate>>
    /\ rateLimitDelay = 1
    /\ peer = 2
    /\ calls = [c \in Calls |-> IdleCall]
    /\ cooldownSeen = FALSE
    /\ effect = NoEffect

\* Calls of get on the two clients, answered with entities.
TwoNext ==
    \/ \E c \in Calls : Get(c)
    \/ \E c \in Calls : PeerGet(c)
    \/ \E c \in Calls : Send(c)
    \/ \E c \in Calls : FetchResolve(c)
    \/ \E c \in Calls, response \in CooldownResponses : Inspect(c, response)
    \/ \E c \in Calls : Decode(c, 200, EntityBody)
    \/ \E g \in 1..Len(promises) : TimerFire(g)
    \/ Tick

TwoSpec == TwoInit /\ [][TwoNext]_vars

\* ----------------------------------------------------------- request URLs
\* Strings are sequences of characters.  The inputs of lookup and get:
\* entity types, include names, query keys and query values.
Artist == <<"a","r","t","i","s","t">>
Recording == <<"r","e","c","o","r","d","i","n","g">>
EntityTypes == {Artist, Recording}

IncTags == <<"t","a","g","s">>
IncUrlRels == <<"u","r","l","-","r","e","l","s">>
IncNames == {IncTags, IncUrlRels}

\* the longest include list, and the most entries of a query mapping
MaxIncs == 2
MaxParams == 2

\* The sequences over S of length at most n.
SeqsUpTo(S, n) == UNION {[1..k -> S] : k \in 0..n}

IncLists == SeqsUpTo(IncNames, MaxIncs)

\* A query value: undefined, a string, or a number.
Undefined == [type |-> "undefined", chars |-> <<>>, num |-> 0]
Str(s) == [type |-> "string", chars |-> s, num |-> 0]
Number(n) == [type |-> "number", chars |-> <<>>, num |-> n]

KeyLimit == <<"l","i","m","i","t">>
KeyQuery == <<"q","u","e","r","y">>
KeyFmt == <<"f","m","t">>
QueryKeys == {KeyLimit, KeyQuery, KeyFmt}
QueryValues == {Undefined, Str(<<>>), Str(<<"a"," ","b","&","c">>),
                Number(25)}

\* A query mapping is the sequence of its entries in insertion order (the
\* order of Object.entries); its keys are distinct.
Queries ==
    {q \in SeqsUpTo([key : QueryKeys, value : QueryValues], MaxParams) :
        \A i, j \in 1..Len(q) : q[i].key = q[j].key => i = j}

\* Array.prototype.join
RECURSIVE join(_, _)
join(parts, sep) ==
    IF parts = <<>> THEN <<>>
    ELSE IF Len(parts) = 1 THEN parts[1]
    ELSE parts[1] \o sep \o join(Tail(parts), sep)

\* String(value) for a number that is a natural number: its decimal digits
RECURSIVE DecimalDigits(_)
DecimalDigits(n) ==
    IF n < 10 THEN <<Digits[n + 1]>>
    ELSE DecimalDigits(n \div 10) \o <<Digits[(n % 10) + 1]>>

\* String(value), as URLSearchParams converts the values it is given
String(v) ==
    IF v.type = "string" THEN v.chars
    ELSE IF v.type = "number" THEN DecimalDigits(v.num)
    ELSE <<"u","n","d","e","f","i","n","e","d">>

\* The characters the application/x-www-form-urlencoded serializer leaves
\* as they are.
FormUnreserved ==
    {"a","b","c","d","e","f","g","h","i","j","k","l","m","n","o","p","q",
     "r","s","t","u","v","w","x","y","z","0","1","2","3","4","5","6","7",
     "8","9","*","-",".","_"}

\* %XX of the ASCII characters that the serializers below escape
PercentCode ==
    (" " :> <<"%","2","0">>) @@ ("\"" :> <<"%","2","2">>) @@
    ("#" :> <<"%","2","3">>) @@ ("%" :> <<"%","2","5">>) @@
    ("&" :> <<"%","2","6">>) @@ ("'" :> <<"%","2","7">>) @@
    ("+" :> <<"%","2","B">>) @@ ("/" :> <<"%","2","F">>) @@
    ("<" :> <<"%","3","C">>) @@ ("=" :> <<"%","3","D">>) @@
    (">" :> <<"%","3","E">>) @@ ("?" :> <<"%","3","F">>)

\* The serializer writing "+" as it is
FormEncodeCharPlusKept(ch) ==
    IF ch \in FormUnreserved \/ ch = "+" THEN <<ch>>
    ELSE IF ch = " " THEN <<"+">>
    ELSE PercentCode[ch]

\* application/x-www-form-urlencoded byte serializer, for one character:
\* a space becomes "+", anything else outside FormUnreserved becomes %XX
FormEncodeChar(ch) ==
    IF ch \in FormUnreserved THEN <<ch>>
    ELSE IF ch = " " THEN <<"+">>
    ELSE PercentCode[ch]

RECURSIVE FormEncode(_)
FormEncode(s) ==
    IF s = <<>> THEN <<>> ELSE FormEncodeChar(Head(s)) \o FormEncode(Tail(s))

RECURSIVE FormPairs(_)
FormPairs(entries) ==
    IF entries = <<>> THEN <<>>
    ELSE <<FormEncode(entries[1].key) \o <<"=">>
             \o FormEncode(String(entries[1].value))>>
         \o FormPairs(Tail(entries))

\* new URLSearchParams(init).toString()
URLSearchParams(entries) == join(FormPairs(entries), <<"&">>)

\* The filter that keeps every entry
AllParams(query) == query

\* Object.entries(query).filter(([_key, value]) => value !== undefined)
DefinedParams(query) == SelectSeq(query, LAMBDA e : e.value # Undefined)

\* The characters the search setter of a URL escapes (the query
\* percent-encode set of a special scheme); it leaves "%" and "+" alone.
QueryEscaped == {" ", "\"", "#", "<", ">", "'"}

RECURSIVE QueryEncode(_)
QueryEncode(s) ==
    IF s = <<>> THEN <<>>
    ELSE (IF Head(s) \in QueryEscaped THEN PercentCode[Head(s)]
          ELSE <<Head(s)>>) \o QueryEncode(Tail(s))

\* url.search = s: a leading "?" is dropped and the rest is escaped
SetSearch(url, s) ==
    [url EXCEPT !.search =
        QueryEncode(IF s # <<>> /\ Head(s) = "?" THEN Tail(s) ELSE s)]

\* The values of options.apiUrl, parsed: origin and path.
BetaApiUrl == "https://beta.musicbrainz.org/ws/2"
LocalApiUrl == "http://localhost:5000/"
ApiUrls == {DefaultApiUrl, BetaApiUrl, LocalApiUrl}
ParsedUrl ==
    (DefaultApiUrl :> [origin |-> "https://musicbrainz.org",
                       pathname |-> <<"/","w","s","/","2","/">>]) @@
    (BetaApiUrl :> [origin |-> "https://beta.musicbrainz.org",
                    pathname |-> <<"/","w","s","/","2">>]) @@
    (LocalApiUrl :> [origin |-> "http://localhost:5000",
                     pathname |-> <<"/">>])

\* The path up to and including its last "/"
RECURSIVE DirOf(_)
DirOf(path) ==
    IF path = <<>> \/ path[Len(path)] = "/" THEN path
    ELSE DirOf(SubSeq(path, 1, Len(path) - 1))

\* new URL(endpoint, base) for an endpoint that is a relative path without
\* dot segments, query or fragment: the last segment of the base path is
\* replaced by the endpoint, and the result has no query.
NewUrl(endpoint, base) ==
    [origin |-> ParsedUrl[base].origin,
     pathname |-> DirOf(ParsedUrl[base].pathname) \o endpoint,
     search |-> <<>>]

\* The endpoints callers pass to get and post directly.
EndpointGenres == <<"g","e","n","r","e","/","a","l","l">>
Endpoints == {EndpointGenres}

NoQuery == [present |-> FALSE, entries |-> <<>>]
Query(entries) == [present |-> TRUE, entries |-> entries]

\* get, lines 143-152: the URL of the request.  Both assignments to
\* endpointUrl.search are made, in the order of the code.
GetUrl(endpoint, query, base) ==
    LET endpointUrl == NewUrl(endpoint, base)
    IN  IF query.present
        THEN LET first == SetSearch(endpointUrl,
                                    URLSearchParams(AllParams(query.entries)))
             IN  SetSearch(first,
                           URLSearchParams(DefinedParams(query.entries)))
        ELSE endpointUrl

\* post, line 174: the URL of the request
PostUrl(endpoint, base) == NewUrl(endpoint, base)

\* The request that get, post or lookup hands to #request: the URL and the
\* init of fetch, with what the caller passed (entry, endpoint, query, and
\* for lookup the entity type, the identifier and the include list).
RequestEffect(entry, method, endpoint, query, lookupArgs, url) ==
    [kind |-> "request", entry |-> entry, method |-> method,
     headers |-> headers, endpoint |-> endpoint, query |-> query,
     lookupArgs |-> lookupArgs, url |-> url]

NoLookupArgs == [entityType |-> <<>>, mbid |-> NoMbid, inc |-> <<>>]

\* lookup with an invalid identifier: the assertion fails, nothing is built
RejectedEffect(entityType, m, inc) ==
    [kind |-> "rejected", entry |-> "lookup", error |-> AssertionError,
     lookupArgs |-> [entityType |-> entityType, mbid |-> m, inc |-> inc]]

\* inc.join("+")
IncParam(inc) == join(inc, <<"+">>)

\* lookup, lines 131-134, down to the request that get builds
LookupRequest(entityType, m, inc) ==
    /\ effect' =
         IF LookupAccepts(Mbids[m])
         THEN LET endpoint == join(<<entityType, Mbids[m]>>, <<"/">>)
                  query == Query(<<[key |-> <<"i","n","c">>,
                                    value |-> Str(IncParam(inc))]>>)
              IN  RequestEffect("lookup", "GET", endpoint, query,
                                [entityType |-> entityType, mbid |-> m,
                                 inc |-> inc],
                                GetUrl(endpoint, query, apiBaseUrl))
         ELSE RejectedEffect(entityType, m, inc)
    /\ UNCHANGED <<now, apiBaseUrl, headers, promises, rateLimitDelay, peer,
                   calls, cooldownSeen>>

\* get called without a query, lines 143-157
GetRequestNoQuery(endpoint) ==
    /\ effect' = RequestEffect("get", "GET", endpoint, NoQuery, NoLookupArgs,
                               GetUrl(endpoint, NoQuery, apiBaseUrl))
    /\ UNCHANGED <<now, apiBaseUrl, headers, promises, rateLimitDelay, peer,
                   calls, cooldownSeen>>

\* get called with a query mapping, lines 143-157
GetRequest(endpoint, entries) ==
    /\ effect' = RequestEffect("get", "GET", endpoint, Query(entries),
                               NoLookupArgs,
                               GetUrl(endpoint, Query(entries), apiBaseUrl))
    /\ UNCHANGED <<now, apiBaseUrl, headers, promises, rateLimitDelay, peer,
                   calls, cooldownSeen>>

\* post, lines 174-179: the URL has no query
PostRequest(endpoint) ==
    /\ effect' = RequestEffect("post", "POST", endpoint, NoQuery,
                               NoLookupArgs, PostUrl(endpoint, apiBaseUrl))
    /\ UNCHANGED <<now, apiBaseUrl, headers, promises, rateLimitDelay, peer,
                   calls, cooldownSeen>>

\* A client constructed with any of the API URLs, before its first call.
UrlInit ==
    /\ now = 0
    /\ apiBaseUrl \in ApiUrls
    /\ headers = AcceptJson
    /\ promises = <<InitialGate>>
    /\ rateLimitDelay = 1
    /\ peer = 0
    /\ calls = [c \in Calls |-> IdleCall]
    /\ cooldownSeen = FALSE
    /\ effect = NoEffect

UrlNext ==
    \/ \E entityType \in EntityTypes, m \in 1..Len(Mbids), inc \in IncLists :
          LookupRequest(entityType, m, inc)
    \/ \E endpoint \in Endpoints : GetRequestNoQuery(endpoint)
    \/ \E endpoint \in Endpoints, entries \in Queries :
          GetRequest(endpoint, entries)
    \/ \E endpoint \in Endpoints : PostRequest(endpoint)

\* The requests that the entry points build, for every input.
UrlSpec == UrlInit /\ [][UrlNext]_vars

\* ----------------------------------------------------------------- claims
\* The places in Mbids of the identifiers that validate accepts.
ValidMbids == {m \in 1..Len(Mbids) : validate(Mbids[m])}

InFlight(c) == calls[c].pc \in {"gate", "sent", "received", "returned"}

\* C1 (as stated): once a response has installed the cooldown until T*1000,
\* every request started after that point is sent at T*1000 or later.  The
\* cooldowns installed before a request starts are promises 2..awaiting.
C1_NoSendBeforeAnyEarlierCooldown ==
    effect.kind = "send" =>
        \A g \in 2..effect.awaiting : now >= promises[g].until

\* C1 (amended): a request started while the cooldown until T*1000 is the
\* installed gate (no later response has replaced it) is sent at T*1000 or
\* later.
C1_NoSendBeforeInstalledCooldown ==
    effect.kind = "send" /\ effect.awaiting > 1 =>
        now >= promises[effect.awaiting].until

\* A request that started before the end of the installed cooldown has
\* been sent.
C1_Witness ==
    /\ effect.kind = "send"
    /\ effect.awaiting > 1
    /\ effect.startedAt < promises[effect.awaiting].until

\* C2: a call that is waiting at its gate await when a response installs a
\* cooldown is not sent before that cooldown has elapsed (overtaken is the
\* latest reset time of the cooldowns installed while it waited), and a
\* call started once the cooldown has resolved is sent without delay.
C2_WaitingCallsHeldByNewCooldown ==
    effect.kind = "send" =>
        /\ now >= effect.overtaken
        /\ (effect.awaiting > 1
              /\ effect.startedAt >= promises[effect.awaiting].until
            => now = effect.startedAt)

\* C3: a lookup with an identifier that is no valid UUID fails with the
\* assertion error in the step that starts it, sends no request, awaits no
\* gate, leaves the gate as it was, and a settled call never acts again;
\* no lookup with such an identifier is ever in flight.
C3_InvalidMbidFailsBeforeRequest ==
    [][\A c \in Calls :
         /\ (calls[c].pc = "idle" /\ calls'[c].pc = "settled"
             => /\ effect'.kind = "settle" /\ effect'.call = c
                /\ effect'.entry = "lookup"
                /\ effect'.mbid \notin ValidMbids
                /\ effect'.error = AssertionError
                /\ calls'[c].sends = 0 /\ calls'[c].awaiting = 0
                /\ promises' = promises /\ rateLimitDelay' = rateLimitDelay)
         /\ (InFlight(c)' /\ calls'[c].entry = "lookup"
             => calls'[c].mbid \in ValidMbids)
         /\ (calls[c].pc = "settled" => calls'[c] = calls[c])]_vars

\* A lookup with an invalid identifier has failed without a request.
C3_Witness ==
    /\ effect.kind = "settle"
    /\ effect.entry = "lookup"
    /\ effect.mbid \notin ValidMbids
    /\ effect.error = AssertionError
    /\ calls[effect.call].pc = "settled"
    /\ calls[effect.call].sends = 0

\* C4: a request started when the installed cooldown has elapsed (the
\* clock has reached its reset time), or under the initial gate, is sent
\* at the time it was started.
C4_ExpiredGateDoesNotDelay ==
    /\ effect.kind = "send"
    /\ \/ effect.awaiting = 1
       \/ effect.startedAt >= promises[effect.awaiting].until
    => now = effect.startedAt

\* A request started after the end of a cooldown has been sent.
C4_Witness ==
    /\ effect.kind = "send"
    /\ effect.awaiting > 1
    /\ effect.startedAt > promises[effect.awaiting].until
    /\ now = effect.startedAt

\* C5: the field holds the cooldown installed last, and a request started
\* under a cooldown that replaced a pending one is sent when that cooldown
\* ends (or at once if it has ended): the replaced cooldown adds nothing.
C5_OnlyLatestCooldownWaitedFor ==
    /\ rateLimitDelay = Len(promises)
    /\ (effect.kind = "send" /\ effect.awaiting > 1
          /\ promises[effect.awaiting].overPending
        => now = Max(effect.startedAt, promises[effect.awaiting].until))

\* A request started under a cooldown that replaced a pending cooldown of
\* another length has been sent after waiting.
C5_Witness ==
    /\ effect.kind = "send"
    /\ effect.awaiting > 2
    /\ promises[effect.awaiting].overPending
    /\ promises[effect.awaiting - 1].until # promises[effect.awaiting].until
    /\ effect.startedAt < promises[effect.awaiting].until

\* C6: a call that was sent before a response installed the cooldown that
\* is now pending holds its response and goes on without waiting: the
\* header inspection and the decoding are enabled.
C6_PastGateUnaffected ==
    \A c \in Calls :
        calls[c].overtaken > 0 /\ ~promises[rateLimitDelay].resolved =>
            /\ (calls[c].pc = "received" =>
                  ENABLED (\E response \in Responses : Inspect(c, response)))
            /\ (calls[c].pc = "returned" =>
                  ENABLED (\E status \in Statuses, body \in Bodies :
                              Decode(c, status, body)))

\* A call sent before the pending cooldown was installed has completed
\* while that cooldown is pending.
C6_Witness ==
    /\ effect.kind = "settle"
    /\ effect.result # NoData
    /\ effect.overtaken > now
    /\ ~promises[rateLimitDelay].resolved

\* C7: a step changes the gate only if it is the header inspection of a
\* response that carries the cooldown signal; a header inspection never
\* fails its call; no step changes the base URL or the request headers.
C7_GateChangesOnlyOnCooldownSignal ==
    [][/\ (rateLimitDelay' # rateLimitDelay
             \/ Len(promises') # Len(promises)
           => effect'.kind = "inspect" /\ effect'.signal)
       /\ (effect'.kind = "inspect"
           => calls'[effect'.call].pc = "returned")
       /\ apiBaseUrl' = apiBaseUrl
       /\ headers' = headers]_vars

\* After a call has completed, the inspection of a response with the
\* cooldown signal has replaced the gate by a pending one.
C7_Witness ==
    /\ effect.kind = "inspect"
    /\ effect.signal
    /\ rateLimitDelay > 1
    /\ ~promises[rateLimitDelay].resolved
    /\ \E c \in Calls : calls[c].pc = "settled" /\ calls[c].sends = 1

\* C8: when the decoded body is an error envelope the call fails with the
\* ApiError of the envelope's message and the response's status, whatever
\* the entry point; any other decoded body is the call's result.
C8_ErrorEnvelopeBecomesApiError ==
    effect.kind = "settle" /\ effect.status \in Statuses
      /\ effect.body.json =>
        /\ effect.entry \in {"lookup", "get", "post"}
        /\ IF isError(effect.body.data)
           THEN /\ calls[effect.call].pc = "settled"
                /\ effect.error.kind = "ApiError"
                /\ effect.error.message = effect.body.data.error
                /\ effect.error.status = effect.status
                /\ effect.result = NoData
           ELSE /\ calls[effect.call].pc = "settled"
                /\ effect.error = NoError
                /\ effect.result = effect.body.data

\* A post has failed with the ApiError of a 429 response.
C8_Witness ==
    /\ effect.kind = "settle"
    /\ effect.entry = "post"
    /\ effect.error = ApiError("Not Found", 429)

\* C9: no call sends more than one request.
C9_AtMostOneRequestPerCall ==
    \A c \in Calls : calls[c].sends <= 1

\* A call has failed on a 429 error response after its one request while
\* a cooldown is pending.
C9_Witness ==
    /\ effect.kind = "settle"
    /\ effect.status = 429
    /\ effect.error.kind = "ApiError"
    /\ calls[effect.call].sends = 1
    /\ ~promises[rateLimitDelay].resolved

\* C10: the initial gate is resolved, and as long as no inspected response
\* has carried the cooldown signal the gate is the initial one, no call
\* waits on a pending promise, and every request is sent at the time it
\* was started.
C10_NoDelayBeforeFirstSignal ==
    /\ promises[1].resolved
    /\ (~cooldownSeen =>
          /\ rateLimitDelay = 1
          /\ \A c \in Calls :
                calls[c].pc = "gate" => promises[calls[c].awaiting].resolved
          /\ (effect.kind = "send" => now = effect.startedAt))

\* The last call has been sent, later than the start of the clock, after
\* responses without the signal.
C10_Witness ==
    /\ ~cooldownSeen
    /\ effect.kind = "send"
    /\ effect.call = NumCalls
    /\ now > 0
    /\ \E c \in Calls : calls[c].pc = "settled" /\ calls[c].sends = 1

\* What a receiver reads from a query string (the parser of
\* application/x-www-form-urlencoded): the text is split at "&", each part
\* at its first "=", "+" is a space and %XX is the character it stands for.
IsInfix(p, s) ==
    \E i \in 0..(Len(s) - Len(p)) : SubSeq(s, i + 1, i + Len(p)) = p

RECURSIVE SplitAt(_, _, _)
SplitAt(s, sep, part) ==
    IF s = <<>> THEN <<part>>
    ELSE IF Head(s) = sep THEN <<part>> \o SplitAt(Tail(s), sep, <<>>)
    ELSE SplitAt(Tail(s), sep, Append(part, Head(s)))

Unescape(code) == CHOOSE ch \in DOMAIN PercentCode : PercentCode[ch] = code

RECURSIVE FormDecode(_)
FormDecode(s) ==
    IF s = <<>> THEN <<>>
    ELSE IF Head(s) = "+" THEN <<" ">> \o FormDecode(Tail(s))
    ELSE IF Head(s) = "%" /\ Len(s) >= 3
    THEN <<Unescape(SubSeq(s, 1, 3))>> \o FormDecode(SubSeq(s, 4, Len(s)))
    ELSE <<Head(s)>> \o FormDecode(Tail(s))

ParsePair(text) ==
    LET parts == SplitAt(text, "=", <<>>)
    IN  [key |-> FormDecode(parts[1]),
         value |-> FormDecode(join(Tail(parts), <<"=">>))]

ParseQuery(search) ==
    IF search = <<>> THEN <<>>
    ELSE LET pairs == SplitAt(search, "&", <<>>)
         IN  [i \in 1..Len(pairs) |-> ParsePair(pairs[i])]

\* The directory that a relative endpoint is resolved in, for each API URL.
ResolvedDir ==
    (DefaultApiUrl :> <<"/","w","s","/","2","/">>) @@
    (BetaApiUrl :> <<"/","w","s","/">>) @@
    (LocalApiUrl :> <<"/">>)

IsLookupRequest == effect.kind = "request" /\ effect.entry = "lookup"

LookupTarget ==
    /\ effect.method = "GET"
    /\ effect.url.origin = ParsedUrl[apiBaseUrl].origin
    /\ effect.url.pathname =
          ResolvedDir[apiBaseUrl] \o effect.lookupArgs.entityType \o <<"/">>
            \o Mbids[effect.lookupArgs.mbid]

IncEquals == <<"i","n","c","=">>

C12_QueryKeepsDefinedKeysOnly ==
    effect.kind = "request" /\ effect.entry = "get" /\ effect.query.present
    => LET q == effect.query.entries
           defined == SelectSeq(q, LAMBDA e : e.value.type # "undefined")
           parsed == ParseQuery(effect.url.search)
       IN  /\ [i \in 1..Len(parsed) |-> parsed[i].key]
                = [i \in 1..Len(defined) |-> defined[i].key]
           /\ DefinedParams(DefinedParams(q)) = DefinedParams(q)
           /\ URLSearchParams(DefinedParams(DefinedParams(q)))
                = effect.url.search

\* A get whose mapping has a defined and an undefined value has built its
\* request.
C12_Witness ==
    /\ effect.kind = "request" /\ effect.entry = "get"
    /\ effect.query.present
    /\ \E i, j \in 1..Len(effect.query.entries) :
          /\ effect.query.entries[i].value = Undefined
          /\ effect.query.entries[j].value # Undefined

\* C13: when the fetch of a call rejects, the call fails in that step with
\* the failure that fetch rejected with, which is no ApiError; the call has
\* sent its one request and never acts again; the step leaves the gate as
\* it was.
C13_TransportFailurePropagates ==
    [][\A c \in Calls :
         /\ (calls[c].pc = "sent" /\ calls'[c].pc = "settled"
             => /\ effect'.kind = "settle" /\ effect'.call = c
                /\ effect'.cause \in TransportFailures
                /\ effect'.error = effect'.cause
                /\ effect'.error.kind # "ApiError"
                /\ effect'.result = NoData
                /\ calls'[c].sends = 1
                /\ promises' = promises /\ rateLimitDelay' = rateLimitDelay)
         /\ (calls[c].pc = "settled" => calls'[c].sends = calls[c].sends)]_vars

\* A call has failed with the TLS failure of its fetch while a cooldown
\* that another response installed is pending.
C13_Witness ==
    /\ effect.kind = "settle"
    /\ effect.cause = TlsFailure
    /\ effect.error = TlsFailure
    /\ rateLimitDelay > 1
    /\ ~promises[rateLimitDelay].resolved

\* C14: the field of each instance holds a promise made for that instance,
\* a call only ever waits on a promise made for the instance it was made
\* on, and a request is sent at the time it was started unless a cooldown
\* installed by a response on its own instance ends later than that.
C14_GateScopedToInstance ==
    /\ promises[rateLimitDelay].client = 1
    /\ promises[peer].client = 2
    /\ \A c \in Calls :
          calls[c].pc = "gate" =>
              promises[calls[c].awaiting].client = calls[c].client
    /\ (effect.kind = "send"
          /\ (\A g \in 1..Len(promises) :
                 promises[g].client = effect.client
                 => promises[g].until <= effect.startedAt)
        => now = effect.startedAt)

\* A request on one instance has been sent at the time it was started,
\* later than the start of the clock, while a cooldown installed by a
\* response on the other instance is pending.
C14_Witness ==
    /\ effect.kind = "send"
    /\ effect.client = 2
    /\ now = effect.startedAt
    /\ now > 0
    /\ ~promises[rateLimitDelay].resolved
    /\ promises[peer].resolved

\* The steps of a call, in the order of the code.
StepOrder ==
    {<<"idle", "gate">>, <<"idle", "settled">>, <<"gate", "sent">>,
     <<"sent", "received">>, <<"sent", "settled">>,
     <<"received", "returned">>, <<"returned", "settled">>}

\* C15: a call moves through idle, gate wait, sent, received, returned (the
\* header inspection is the step from received to returned) and settled in
\* this order only; it is sent only from its gate wait and only when the
\* promise it awaits is resolved; the gate is replaced only in the step
\* that inspects the headers of a received response, and never in the step
\* that decodes a returned response.
C15_StepsInFixedOrder ==
    [][/\ \A c \in Calls :
            /\ (calls'[c].pc # calls[c].pc
                => <<calls[c].pc, calls'[c].pc>> \in StepOrder)
            /\ (calls'[c].pc = "sent" /\ calls[c].pc # "sent"
                => /\ calls[c].pc = "gate"
                   /\ promises[calls[c].awaiting].resolved)
            /\ (calls[c].pc = "returned" /\ calls'[c].pc # "returned"
                => rateLimitDelay' = rateLimitDelay)
       /\ (rateLimitDelay' # rateLimitDelay
           => \E c \in Calls : /\ calls[c].pc = "received"
                                /\ calls'[c].pc = "returned"
                                /\ effect'.kind = "inspect"
                                /\ effect'.call = c)]_vars

\* The first call, alone, has been decoded after its response replaced the
\* gate: it went through every step.
C15_Witness ==
    /\ effect.kind = "settle"
    /\ effect.call = 1
    /\ effect.status \in Statuses
    /\ effect.result # NoData
    /\ calls[2].pc = "idle"
    /\ rateLimitDelay = 2
    /\ ~promises[rateLimitDelay].resolved

\* C16: the header inspection of a response that carries the cooldown
\* signal installs a cooldown that is pending until the reset time, and
\* returns the response; whatever was inspected, the response may then
\* turn out to be an error envelope or no JSON, so that the call fails.
C16_CooldownInstalledWhateverTheBody ==
    /\ (effect.kind = "inspect" =>
          /\ calls[effect.call].pc = "returned"
          /\ (effect.signal =>
                /\ rateLimitDelay = Len(promises)
                /\ ~promises[rateLimitDelay].resolved
                /\ promises[rateLimitDelay].until > now))
    /\ \A c \in Calls :
          calls[c].pc = "returned" =>
              /\ ENABLED Decode(c, 429, ErrorBody)
              /\ ENABLED Decode(c, 200, NotJson)

\* The first call, alone, has failed on an error envelope or on a body
\* that is no JSON, and the cooldown that its response installed is
\* pending.
C16_Witness ==
    /\ effect.kind = "settle"
    /\ effect.call = 1
    /\ effect.error.kind \in {"ApiError", "SyntaxError"}
    /\ calls[2].pc = "idle"
    /\ rateLimitDelay = 2
    /\ ~promises[rateLimitDelay].resolved
    /\ promises[rateLimitDelay].until > now

\* C19: whenever a request is sent, the reset time of the cooldown that
\* the field holds has been reached.
C19_NoSendWhileGatePending ==
    effect.kind = "send" => promises[rateLimitDelay].until <= now

\* C17: a call that waits at its gate is eventually sent, and a call that
\* has been sent eventually settles.
C17_EveryCallEventuallySent ==
    /\ \A c \in Calls : (calls[c].pc = "gate") ~> (calls[c].pc = "sent")
    /\ \A c \in Calls : (calls[c].pc = "sent") ~> (calls[c].pc = "settled")

\* A call that waited at its gate while another response replaced the
\* gate has been sent, at the end of the cooldown it awaited.
C17_Witness ==
    /\ effect.kind = "send"
    /\ effect.awaiting > 1
    /\ effect.overtaken > 0
    /\ effect.startedAt < now

\* Every call started before the one just sent is no longer held at its
\* gate: it has been sent, or the promise it awaits is due (the clock does
\* not advance while a timer is due or a continuation is ready, so that
\* call is sent at this time too).
EarlierCallsReleased ==
    \A d \in 1..(effect.call - 1) :
        calls[d].pc = "gate" => promises[calls[d].awaiting].due <= now

\* No response has replaced a cooldown by one that ends earlier.
NoCooldownShortened ==
    \A g \in 2..Len(promises) : promises[g - 1].due <= promises[g].due

\* C18 (as stated): when a request is sent, no call that was started
\* earlier is still held at its gate.
C18_SentInStartOrder ==
    effect.kind = "send" => EarlierCallsReleased

\* C18 (amended): as long as no response has replaced a cooldown by one
\* that ends earlier, when a request is sent no call that was started
\* earlier is still held at its gate.
C18_SentInStartOrderUnlessShortened ==
    effect.kind = "send" /\ NoCooldownShortened => EarlierCallsReleased

\* A call that waited for the second of two cooldowns has been sent while
\* an earlier call, which awaits the first one, is released too.
C18_Witness ==
    /\ effect.kind = "send"
    /\ NoCooldownShortened
    /\ effect.awaiting > 2
    /\ \E d \in 1..(effect.call - 1) :
          /\ calls[d].pc = "gate"
          /\ calls[d].awaiting > 1
          /\ calls[d].awaiting < effect.awaiting

====
